---------------------------- MODULE Spec2Model ----------------------------
(***************************************************************************)
(* Model of the sample normalisation and index computation pipeline of     *)
(* src/src/lib/calculations.ts (processWaterSamples and its helpers).      *)
(*                                                                         *)
(* JavaScript values are tagged records, strings are sequences of          *)
(* one-character strings, numbers are exact rationals in lowest terms      *)
(* extended with NaN, +Infinity and -Infinity.  IEEE-754 rounding error of *)
(* the double arithmetic is not modelled: every finite operation is exact. *)
(* Objects are sequences of key/value entries in insertion order.          *)
(***************************************************************************)
EXTENDS Integers, Sequences, FiniteSets

(***************************************************************************)
(* Numbers                                                                 *)
(***************************************************************************)
Abs(x) == IF x < 0 THEN -x ELSE x

RECURSIVE Gcd(_, _)
Gcd(a, b) == IF b = 0 THEN a ELSE Gcd(b, a % b)

\* the finite number n/d, d > 0, in lowest terms
Fin(n, d) ==
  LET g == Gcd(Abs(n), d)
  IN  [k |-> "fin", n |-> n \div g, d |-> d \div g]

NaN    == [k |-> "nan", n |-> 0, d |-> 1]
PosInf == [k |-> "inf", n |-> 1, d |-> 1]
NegInf == [k |-> "inf", n |-> -1, d |-> 1]

Zero == Fin(0, 1)
Int2Num(i) == Fin(i, 1)

Sign(x) == IF x.n > 0 THEN 1 ELSE IF x.n < 0 THEN -1 ELSE 0
Inf(s) == IF s < 0 THEN NegInf ELSE PosInf

\* a + b
NumAdd(a, b) ==
  IF a.k = "nan" \/ b.k = "nan" THEN NaN
  ELSE IF a.k = "inf" /\ b.k = "inf" THEN (IF a.n = b.n THEN a ELSE NaN)
  ELSE IF a.k = "inf" THEN a
  ELSE IF b.k = "inf" THEN b
  ELSE LET l == (a.d \div Gcd(a.d, b.d)) * b.d
       IN  Fin(a.n * (l \div a.d) + b.n * (l \div b.d), l)

\* a * b
NumMul(a, b) ==
  IF a.k = "nan" \/ b.k = "nan" THEN NaN
  ELSE IF a.k = "inf" \/ b.k = "inf"
       THEN (IF Sign(a) * Sign(b) = 0 THEN NaN ELSE Inf(Sign(a) * Sign(b)))
  ELSE LET g1 == Gcd(Abs(a.n), b.d)
           g2 == Gcd(Abs(b.n), a.d)
       IN  Fin((a.n \div g1) * (b.n \div g2), (a.d \div g2) * (b.d \div g1))

\* a / b
NumDiv(a, b) ==
  IF a.k = "nan" \/ b.k = "nan" THEN NaN
  ELSE IF a.k = "inf" /\ b.k = "inf" THEN NaN
  ELSE IF a.k = "inf" THEN Inf(a.n * (IF Sign(b) < 0 THEN -1 ELSE 1))
  ELSE IF b.k = "inf" THEN Zero
  ELSE IF b.n = 0 THEN (IF a.n = 0 THEN NaN ELSE Inf(Sign(a)))
  ELSE NumMul(a, Fin(Sign(b) * b.d, Abs(b.n)))

\* a < b (false whenever an operand is NaN)
NumLt(a, b) ==
  IF a.k = "nan" \/ b.k = "nan" THEN FALSE
  ELSE IF a.k = "inf" THEN a.n < 0 /\ b # NegInf
  ELSE IF b.k = "inf" THEN b.n > 0
  ELSE LET l == (a.d \div Gcd(a.d, b.d)) * b.d
       IN  a.n * (l \div a.d) < b.n * (l \div b.d)

NumGt(a, b)  == NumLt(b, a)
NumGeq(a, b) == a.k # "nan" /\ b.k # "nan" /\ ~NumLt(a, b)

\* Math.round: nearest integer, halves towards +Infinity
MathRound(x) ==
  IF x.k # "fin" THEN x ELSE Int2Num((2 * x.n + x.d) \div (2 * x.d))

Hundred == Int2Num(100)

\* Math.round(x * 100) / 100
Round2(x) == NumDiv(MathRound(NumMul(x, Hundred)), Hundred)

(***************************************************************************)
(* JavaScript values                                                       *)
(***************************************************************************)
Undefined == [t |-> "undefined", num |-> Zero, str |-> <<>>]
Null      == [t |-> "null", num |-> Zero, str |-> <<>>]
Num(x)    == [t |-> "number", num |-> x, str |-> <<>>]
Str(s)    == [t |-> "string", num |-> Zero, str |-> s]

\* a built-in function object, such as Object.prototype.constructor
BuiltinFunction == [t |-> "function", num |-> Zero, str |-> <<>>]

EmptyStr == Str(<<>>)

\* ToBoolean
Truthy(v) ==
  CASE v.t = "undefined" -> FALSE
    [] v.t = "null"      -> FALSE
    [] v.t = "number"    -> v.num.k # "nan" /\ v.num # Zero
    [] v.t = "string"    -> v.str # <<>>
    [] v.t = "function"  -> TRUE

\* a || b
Or(a, b) == IF Truthy(a) THEN a ELSE b

\* a ?? b
Coalesce(a, b) == IF a.t \in {"undefined", "null"} THEN b ELSE a

(***************************************************************************)
(* Strings                                                                 *)
(***************************************************************************)
Digits == <<"0", "1", "2", "3", "4", "5", "6", "7", "8", "9">>
DigitSet == {Digits[i] : i \in 1..10}
DigitVal(c) == (CHOOSE i \in 1..10 : Digits[i] = c) - 1

Upper == <<"A","B","C","D","E","F","G","H","I","J","K","L","M",
           "N","O","P","Q","R","S","T","U","V","W","X","Y","Z">>
Lower == <<"a","b","c","d","e","f","g","h","i","j","k","l","m",
           "n","o","p","q","r","s","t","u","v","w","x","y","z">>

LowerChar(c) ==
  IF \E i \in 1..26 : Upper[i] = c
  THEN Lower[CHOOSE i \in 1..26 : Upper[i] = c]
  ELSE c

\* String.prototype.toLowerCase
ToLowerCase(s) == [i \in 1..Len(s) |-> LowerChar(s[i])]

WhiteSpace == {" "}

RECURSIVE TrimLeft(_)
TrimLeft(s) ==
  IF s # <<>> /\ Head(s) \in WhiteSpace THEN TrimLeft(Tail(s)) ELSE s

RECURSIVE TrimRight(_)
TrimRight(s) ==
  IF s # <<>> /\ s[Len(s)] \in WhiteSpace
  THEN TrimRight(SubSeq(s, 1, Len(s) - 1))
  ELSE s

\* String.prototype.trim
Trim(s) == TrimRight(TrimLeft(s))

RECURSIVE NatDigits(_)
NatDigits(n) ==
  IF n < 10 THEN <<Digits[n + 1]>>
  ELSE NatDigits(n \div 10) \o <<Digits[(n % 10) + 1]>>

RECURSIVE FracDigits(_, _)
FracDigits(r, d) ==
  IF r = 0 THEN <<>>
  ELSE <<Digits[((r * 10) \div d) + 1]>> \o FracDigits((r * 10) % d, d)

InfinityStr == <<"I","n","f","i","n","i","t","y">>

\* Number.prototype.toString for NaN, the infinities and finite decimals
NumberToString(x) ==
  CASE x.k = "nan" -> <<"N","a","N">>
    [] x.k = "inf" -> (IF x.n < 0 THEN <<"-">> ELSE <<>>) \o InfinityStr
    [] x.k = "fin" ->
         LET a == Abs(x.n)
             f == FracDigits(a % x.d, x.d)
         IN  (IF x.n < 0 THEN <<"-">> ELSE <<>>)
             \o NatDigits(a \div x.d)
             \o (IF f = <<>> THEN <<>> ELSE <<".">> \o f)

\* the source text of a built-in function
NativeCodeStr ==
  <<"f","u","n","c","t","i","o","n"," ","(",")"," ","{"," ",
    "[","n","a","t","i","v","e"," ","c","o","d","e","]"," ","}">>

\* String(v)
JSString(v) ==
  CASE v.t = "undefined" -> <<"u","n","d","e","f","i","n","e","d">>
    [] v.t = "null"      -> <<"n","u","l","l">>
    [] v.t = "number"    -> NumberToString(v.num)
    [] v.t = "string"    -> v.str
    [] v.t = "function"  -> NativeCodeStr

RECURSIVE DigitsToNat(_)
DigitsToNat(s) ==
  IF s = <<>> THEN 0
  ELSE DigitsToNat(SubSeq(s, 1, Len(s) - 1)) * 10 + DigitVal(s[Len(s)])

RECURSIVE Pow10(_)
Pow10(e) == IF e = 0 THEN 1 ELSE 10 * Pow10(e - 1)

\* an unsigned decimal literal: digits with at most one ".", at least one digit
IsDecimalLiteral(s) ==
  /\ \A i \in 1..Len(s) : s[i] \in DigitSet \cup {"."}
  /\ Cardinality({i \in 1..Len(s) : s[i] = "."}) <= 1
  /\ \E i \in 1..Len(s) : s[i] \in DigitSet

DecimalValue(s) ==
  LET dots == {i \in 1..Len(s) : s[i] = "."}
      p    == IF dots = {} THEN Len(s) + 1 ELSE CHOOSE i \in dots : TRUE
      ip   == SubSeq(s, 1, p - 1)
      fp   == SubSeq(s, p + 1, Len(s))
  IN  Fin(DigitsToNat(ip \o fp), Pow10(Len(fp)))

\* Number(s) for a string s: the empty (or blank) string is 0, a signed
\* decimal literal is its value, a signed "Infinity" is infinite, anything
\* else is NaN.  Exponent, hexadecimal, octal and binary literals are not
\* part of the modelled alphabet.
StringToNumber(s) ==
  LET t    == Trim(s)
      neg  == t # <<>> /\ Head(t) = "-"
      sgn  == t # <<>> /\ Head(t) \in {"-", "+"}
      body == IF sgn THEN Tail(t) ELSE t
  IN  IF t = <<>> THEN Zero
      ELSE IF body = InfinityStr THEN (IF neg THEN NegInf ELSE PosInf)
      ELSE IF IsDecimalLiteral(body)
           THEN (IF neg THEN NumMul(Int2Num(-1), DecimalValue(body))
                 ELSE DecimalValue(body))
      ELSE NaN

\* ToNumber(v), the coercion of an arithmetic operand
ToNumber(v) ==
  CASE v.t = "undefined" -> NaN
    [] v.t = "null"      -> Zero
    [] v.t = "number"    -> v.num
    [] v.t = "string"    -> StringToNumber(v.str)
    [] v.t = "function"  -> StringToNumber(NativeCodeStr)

(***************************************************************************)
(* Objects: sequences of entries [k |-> key, v |-> value], insertion order *)
(***************************************************************************)
Entry(key, val) == [k |-> key, v |-> val]

\* Object.prototype.hasOwnProperty.call(obj, key)
HasKey(obj, key) == \E i \in 1..Len(obj) : obj[i].k = key

\* names every plain object inherits from Object.prototype
ObjectPrototypeKeys ==
  { <<"c","o","n","s","t","r","u","c","t","o","r">>,
    <<"t","o","S","t","r","i","n","g">>,
    <<"v","a","l","u","e","O","f">> }

\* key in obj: own or inherited
In(obj, key) == HasKey(obj, key) \/ key \in ObjectPrototypeKeys

\* obj[key]: the own property, else the inherited one, else undefined
Get(obj, key) ==
  IF HasKey(obj, key)
  THEN obj[CHOOSE i \in 1..Len(obj) : obj[i].k = key].v
  ELSE IF key \in ObjectPrototypeKeys THEN BuiltinFunction
  ELSE Undefined

\* Object.keys(obj)
ObjectKeys(obj) == [i \in 1..Len(obj) |-> obj[i].k]

\* Array.prototype.includes
Includes(arr, x) == \E i \in 1..Len(arr) : arr[i] = x

(***************************************************************************)
(* Column names                                                            *)
(***************************************************************************)
K_id        == <<"i","d">>
K_latitude  == <<"l","a","t","i","t","u","d","e">>
K_longitude == <<"l","o","n","g","i","t","u","d","e">>
K_lat       == <<"l","a","t">>
K_lon       == <<"l","o","n">>
K_lng       == <<"l","n","g">>
K_Latitude  == <<"L","a","t","i","t","u","d","e">>
K_Longitude == <<"L","o","n","g","i","t","u","d","e">>
K_ID  == <<"I","D">>
K_LAT == <<"L","A","T">>
K_Lng == <<"L","n","g">>

\* WHO_STANDARDS, in mg/L
WHO_STANDARDS ==
  << Entry(<<"A","s">>, Num(Fin(1, 100))),
     Entry(<<"C","d">>, Num(Fin(3, 1000))),
     Entry(<<"C","r">>, Num(Fin(5, 100))),
     Entry(<<"C","u">>, Num(Fin(2, 1))),
     Entry(<<"F","e">>, Num(Fin(3, 10))),
     Entry(<<"P","b">>, Num(Fin(1, 100))),
     Entry(<<"M","n">>, Num(Fin(4, 10))),
     Entry(<<"N","i">>, Num(Fin(7, 100))),
     Entry(<<"Z","n">>, Num(Fin(3, 1))),
     Entry(<<"H","g">>, Num(Fin(6, 1000))) >>

(***************************************************************************)
(* Helpers                                                                 *)
(***************************************************************************)
\* parseNumber(v): a number value or Undefined
parseNumber(v) ==
  IF v = Undefined \/ v = Null \/ v = EmptyStr THEN Undefined
  ELSE LET n == StringToNumber(Trim(JSString(v)))
       IN  IF n.k = "nan" THEN Undefined ELSE Num(n)

\* pickNumber returning at the first present key, parsable or not
RECURSIVE pickNumberFirstPresent(_, _)
pickNumberFirstPresent(sample, keys) ==
  IF keys = <<>> THEN Undefined
  ELSE IF In(sample, Head(keys))
       THEN parseNumber(Get(sample, Head(keys)))
       ELSE pickNumberFirstPresent(sample, Tail(keys))

\* pickNumber(sample, keys): a number value or Undefined
RECURSIVE pickNumber(_, _)
pickNumber(sample, keys) ==
  IF keys = <<>> THEN Undefined
  ELSE LET val == IF In(sample, Head(keys))
                  THEN parseNumber(Get(sample, Head(keys)))
                  ELSE Undefined
       IN  IF val # Undefined THEN val ELSE pickNumber(sample, Tail(keys))

\* parseNumber(sample[metal]) || 0
Concentration(sample, metal) ==
  Or(parseNumber(Get(sample, metal)), Num(Zero)).num

\* WHO_STANDARDS[metal] || 1
Standard(metal) ==
  ToNumber(Or(Get(WHO_STANDARDS, metal), Num(Int2Num(1))))

One == Int2Num(1)

(***************************************************************************)
(* Calculations                                                            *)
(***************************************************************************)
\* HPILoop weighting every metal alike (weight 1 instead of 1 / standard)
RECURSIVE HPILoopUnweighted(_, _, _)
HPILoopUnweighted(sample, metals, acc) ==
  IF metals = <<>> THEN acc
  ELSE LET concentration == Concentration(sample, Head(metals))
           standard      == Standard(Head(metals))
           weight        == One
           subIndex      == NumMul(NumDiv(concentration, standard), Hundred)
       IN  HPILoopUnweighted(sample, Tail(metals),
                   [weightedSum |-> NumAdd(acc.weightedSum,
                                           NumMul(weight, subIndex)),
                    totalWeight |-> NumAdd(acc.totalWeight, weight)])

\* the forEach of calculateHPI: acc = [weightedSum, totalWeight]
RECURSIVE HPILoop(_, _, _)
HPILoop(sample, metals, acc) ==
  IF metals = <<>> THEN acc
  ELSE LET concentration == Concentration(sample, Head(metals))
           standard      == Standard(Head(metals))
           weight        == NumDiv(One, standard)
           subIndex      == NumMul(NumDiv(concentration, standard), Hundred)
       IN  HPILoop(sample, Tail(metals),
                   [weightedSum |-> NumAdd(acc.weightedSum,
                                           NumMul(weight, subIndex)),
                    totalWeight |-> NumAdd(acc.totalWeight, weight)])

\* calculateHPI without the totalWeight > 0 guard
calculateHPIUnguarded(sample, metals) ==
  LET acc == HPILoop(sample, metals,
                     [weightedSum |-> Zero, totalWeight |-> Zero])
  IN  NumDiv(acc.weightedSum, acc.totalWeight)

calculateHPI(sample, metals) ==
  LET acc == HPILoop(sample, metals,
                     [weightedSum |-> Zero, totalWeight |-> Zero])
  IN  IF NumGt(acc.totalWeight, Zero)
      THEN NumDiv(acc.weightedSum, acc.totalWeight)
      ELSE Zero

RECURSIVE HEILoop(_, _, _)
HEILoop(sample, metals, sum) ==
  IF metals = <<>> THEN sum
  ELSE HEILoop(sample, Tail(metals),
               NumAdd(sum, NumDiv(Concentration(sample, Head(metals)),
                                  Standard(Head(metals)))))

calculateHEI(sample, metals) == HEILoop(sample, metals, Zero)

\* CdLoop summing the contamination factors concentration / standard - 1
RECURSIVE CdLoopFactor(_, _, _)
CdLoopFactor(sample, metals, sum) ==
  IF metals = <<>> THEN sum
  ELSE CdLoopFactor(sample, Tail(metals),
         NumAdd(sum, NumAdd(NumDiv(Concentration(sample, Head(metals)),
                                   Standard(Head(metals))),
                            Int2Num(-1))))

RECURSIVE CdLoop(_, _, _)
CdLoop(sample, metals, sum) ==
  IF metals = <<>> THEN sum
  ELSE CdLoop(sample, Tail(metals),
              NumAdd(sum, NumDiv(Concentration(sample, Head(metals)),
                                 Standard(Head(metals)))))

calculateCd(sample, metals) == CdLoop(sample, metals, Zero)

\* categorizeWaterQuality with the boundaries in the lower category
categorizeInclusive(hpi) ==
  IF ~NumGt(hpi, Int2Num(100)) /\ hpi.k # "nan" THEN "Safe"
  ELSE IF ~NumGt(hpi, Int2Num(200)) /\ hpi.k # "nan" THEN "Slightly Polluted"
  ELSE "Hazardous"

categorizeWaterQuality(hpi) ==
  IF NumLt(hpi, Int2Num(100)) THEN "Safe"
  ELSE IF NumLt(hpi, Int2Num(200)) THEN "Slightly Polluted"
  ELSE "Hazardous"

(***************************************************************************)
(* processWaterSamples                                                     *)
(***************************************************************************)
\* the lower-cased exclusion list
excludeLiterals ==
  <<K_id, K_latitude, K_longitude, K_lat, K_lon, K_lng,
    K_Latitude, K_Longitude>>

\* excludeLiterals.map((k) => k.toLowerCase())
exclude ==
  [i \in 1..Len(excludeLiterals) |-> ToLowerCase(excludeLiterals[i])]

\* InferMetalColumns comparing the column names case-sensitively
InferMetalColumnsCaseSensitive(firstSample) ==
  LET keep(key) == ~Includes(exclude, key)
  IN  SelectSeq(ObjectKeys(firstSample), keep)

\* Object.keys(firstSample).filter(key => !exclude.includes(key.toLowerCase()))
InferMetalColumns(firstSample) ==
  LET keep(key) == ~Includes(exclude, ToLowerCase(key))
  IN  SelectSeq(ObjectKeys(firstSample), keep)

\* MetalsOf without the "|| 0" fallback
MetalsOfNoFallback(sample, metals) ==
  [i \in 1..Len(metals) |->
     Entry(metals[i], parseNumber(Get(sample, metals[i])))]

\* the metals object built by metalColumns.forEach
MetalsOf(sample, metals) ==
  [i \in 1..Len(metals) |->
     Entry(metals[i], Num(Concentration(sample, metals[i])))]

SamplePrefix == <<"S","a","m","p","l","e"," ">>

\* ResultId with a 0-based placeholder
ResultIdZeroBased(sample, index) ==
  LET id  == Get(sample, K_id)
      str == IF id = Undefined \/ id = Null THEN Undefined
             ELSE Str(JSString(id))
  IN  Or(str, Str(SamplePrefix \o NatDigits(index)))

\* ResultId reading the id from the column "ID" as well
ResultIdAnyCase(sample, index) ==
  LET id  == Coalesce(Get(sample, K_id), Get(sample, K_ID))
      str == IF id = Undefined \/ id = Null THEN Undefined
             ELSE Str(JSString(id))
  IN  Or(str, Str(SamplePrefix \o NatDigits(index + 1)))

\* sample.id?.toString() || `Sample ${index + 1}`
ResultId(sample, index) ==
  LET id  == Get(sample, K_id)
      str == IF id = Undefined \/ id = Null THEN Undefined
             ELSE Str(JSString(id))
  IN  Or(str, Str(SamplePrefix \o NatDigits(index + 1)))

\* the body of samples.map, for the row at 0-based position index
RowResult(sample, index, metals) ==
  LET hpi == calculateHPI(sample, metals)
      hei == calculateHEI(sample, metals)
      cd  == calculateCd(sample, metals)
  IN  [id        |-> ResultId(sample, index),
       latitude  |-> pickNumber(sample, <<K_latitude, K_Latitude, K_lat>>),
       longitude |-> pickNumber(sample,
                                <<K_longitude, K_Longitude, K_lon, K_lng>>),
       hpi       |-> Round2(hpi),
       hei       |-> Round2(hei),
       cd        |-> Round2(cd),
       category  |-> categorizeWaterQuality(hpi),
       metals    |-> MetalsOf(sample, metals)]

(***************************************************************************)
(* Inputs                                                                  *)
(***************************************************************************)
MaxRows == 2

K_Pb  == <<"P","b">>
K_Cd  == <<"C","d">>
K_pb  == <<"p","b">>
K_Xx  == <<"X","x">>
K_constructor == <<"c","o","n","s","t","r","u","c","t","o","r">>

S_S1      == Str(<<"S","1">>)
S_S2      == Str(<<"S","2">>)
S_blank   == Str(<<" ">>)
S_trace   == Str(<<"t","r","a","c","e">>)
S_na      == Str(<<"n","/","a">>)
S_0_02    == Str(<<"0",".","0","2">>)
S_0_03    == Str(<<" ","0",".","0","3"," ">>)
S_0_01    == Str(<<"0",".","0","1">>)
S_0_002   == Str(<<"0",".","0","0","2">>)
S_0_025   == Str(<<"0",".","0","2","5">>)
S_0_5     == Str(<<"0",".","5">>)
S_0_99996 == Str(<<"0",".","9","9","9","9","6">>)
S_0_99999 == Str(<<"0",".","9","9","9","9","9">>)
S_1_99999 == Str(<<"1",".","9","9","9","9","9">>)
S_77_1    == Str(<<"7","7",".","1">>)
S_m3_5    == Str(<<"-","3",".","5">>)
S_Inf     == Str(InfinityStr)
S_NegInf  == Str(<<"-">> \o InfinityStr)

DefaultId     == <<Entry(K_id, S_S1)>>
DefaultMetals == <<Entry(K_Pb, S_0_02)>>

\* lat, latitude and lng all usable
CoordsPriority ==
  <<Entry(K_lat, Num(Int2Num(12))), Entry(K_latitude, Num(Int2Num(34))),
    Entry(K_lng, S_77_1)>>

\* an unparsable latitude before a usable lat, a blank longitude before lon
CoordsFallback ==
  <<Entry(K_latitude, S_na), Entry(K_lat, S_m3_5),
    Entry(K_longitude, S_blank), Entry(K_lon, Num(Int2Num(5)))>>

\* a null Latitude and a Longitude of 0
CoordsNullZero ==
  <<Entry(K_Latitude, Null), Entry(K_Longitude, Num(Zero))>>

\* rows that differ in their id and coordinate cells
MetadataRows ==
  { DefaultId \o DefaultMetals,
    CoordsPriority \o DefaultMetals,
    <<Entry(K_id, EmptyStr)>> \o CoordsFallback \o DefaultMetals,
    <<Entry(K_id, Null)>> \o CoordsNullZero \o DefaultMetals,
    DefaultId \o <<Entry(K_latitude, S_Inf), Entry(K_longitude, S_77_1)>>
              \o DefaultMetals,
    <<Entry(K_ID, S_S1), Entry(K_LAT, Num(Int2Num(12))),
      Entry(K_Lng, S_77_1)>>,
    <<Entry(K_Cd, S_0_01), Entry(K_ID, S_S2), Entry(K_LAT, Num(Int2Num(12))),
      Entry(K_Pb, S_0_03), Entry(K_Longitude, S_77_1)>> }

\* rows that differ in their metal cells
MetalRows ==
  { DefaultId \o <<Entry(K_Pb, S_0_03), Entry(K_Cd, S_0_01)>>,
    DefaultId \o <<Entry(K_Cd, S_0_002), Entry(K_Pb, S_0_025)>>,
    DefaultId \o <<Entry(K_Pb, S_trace), Entry(K_Cd, Null),
                   Entry(K_Xx, EmptyStr)>>,
    DefaultId \o <<Entry(K_Xx, S_0_99996)>>,
    DefaultId \o <<Entry(K_Xx, S_0_99999), Entry(K_Pb, Num(Zero))>>,
    <<Entry(K_id, Num(Zero)), Entry(K_Xx, Num(Int2Num(1)))>>,
    DefaultId \o <<Entry(K_Xx, S_1_99999)>>,
    DefaultId \o <<Entry(K_Xx, Num(Int2Num(2))), Entry(K_pb, Num(Int2Num(2)))>>,
    DefaultId \o <<Entry(K_Xx, S_Inf), Entry(K_pb, S_NegInf)>>,
    DefaultId \o <<Entry(K_constructor, S_0_5)>> }

\* the rows the file reader can hand over
Rows == MetadataRows \cup MetalRows

Array(items) == [t |-> "array", items |-> items]
NoArray(t)   == [t |-> t, items |-> <<>>]

\* the arguments processWaterSamples is called with
Inputs ==
  {NoArray("undefined"), NoArray("null")}
  \cup {Array(r) : r \in UNION {[1..n -> Rows] : n \in 0..MaxRows}}

(***************************************************************************)
(* Results page: rehydration of the stored results                         *)
(***************************************************************************)
K_sample_id == <<"s","a","m","p","l","e","_","i","d">>
K_SampleID == <<"S","a","m","p","l","e","I","D">>
K_Location == <<"L","o","c","a","t","i","o","n">>
K_Lat == <<"L","a","t">>
K_Lon == <<"L","o","n">>
K_hpi == <<"h","p","i">>
K_HPI == <<"H","P","I">>
K_hpi_value == <<"h","p","i","_","v","a","l","u","e">>
K_hpiValue == <<"h","p","i","V","a","l","u","e">>
K_hpi_val == <<"h","p","i","_","v","a","l">>
K_hei == <<"h","e","i">>
K_HEI == <<"H","E","I">>
K_hei_value == <<"h","e","i","_","v","a","l","u","e">>
K_heiValue == <<"h","e","i","V","a","l","u","e">>
K_cd == <<"c","d">>
K_contamination_degree == <<"c","o","n","t","a","m","i","n","a","t","i","o","n","_","d","e","g","r","e","e">>
K_contaminationDegree == <<"c","o","n","t","a","m","i","n","a","t","i","o","n","D","e","g","r","e","e">>
K_category == <<"c","a","t","e","g","o","r","y">>
K_Category == <<"C","a","t","e","g","o","r","y">>
K_status == <<"s","t","a","t","u","s">>

K_metals == <<"m","e","t","a","l","s">>

\* a nested object as the value of a field
ObjVal(fields) == [t |-> "object", num |-> Zero, str |-> <<>>, fields |-> fields]

\* an element of the parsed array: a record object or null
Obj(fields) == [t |-> "object", fields |-> fields]
NullElement == [t |-> "null", fields |-> <<>>]

\* { ...obj, key: val }: an existing key keeps its place
Put(obj, key, val) ==
  IF HasKey(obj, key)
  THEN [i \in 1..Len(obj) |-> IF obj[i].k = key THEN Entry(key, val) ELSE obj[i]]
  ELSE Append(obj, Entry(key, val))

latKeys == <<K_latitude, K_Latitude, K_lat, K_Lat>>
lonKeys == <<K_longitude, K_Longitude, K_lon, K_lng, K_Lon, K_Lng>>
hpiKeys == <<K_hpi, K_HPI, K_hpi_value, K_hpiValue, K_hpi_val>>
heiKeys == <<K_hei, K_HEI, K_hei_value, K_heiValue>>
cdKeys  == <<K_cd, K_Cd, K_contamination_degree, K_contaminationDegree>>

\* pickNumber of normalizeResults: own keys only, null when nothing parses
RECURSIVE pickNumberOwn(_, _)
pickNumberOwn(obj, keys) ==
  IF keys = <<>> THEN Null
  ELSE LET k == Head(keys)
           v == Get(obj.fields, k)
           n == StringToNumber(Trim(JSString(v)))
       IN  IF /\ obj.t # "null"
              /\ HasKey(obj.fields, k)
              /\ v \notin {Undefined, Null, EmptyStr}
              /\ n.k # "nan"
           THEN Num(n)
           ELSE pickNumberOwn(obj, Tail(keys))

\* pickNumericAlt of normalizeResults
RECURSIVE pickNumericAlt(_, _)
pickNumericAlt(obj, possibilities) ==
  IF possibilities = <<>> THEN Null
  ELSE LET k == Head(possibilities)
           v == Get(obj.fields, k)
           n == StringToNumber(Trim(JSString(v)))
       IN  IF /\ obj.t # "null"
              /\ HasKey(obj.fields, k)
              /\ v \notin {Undefined, Null, EmptyStr}
              /\ n.k # "nan"
           THEN Num(n)
           ELSE pickNumericAlt(obj, Tail(possibilities))

PlaceholderPrefix == <<"s","a","m","p","l","e","-">>
UnknownCategory == Str(<<"U","n","k","n","o","w","n">>)

\* the id resolution with the placeholder numbered from 0
ResolveIdZeroBased(fields, idx) ==
  Coalesce(Get(fields, K_id),
  Coalesce(Get(fields, K_sample_id),
  Coalesce(Get(fields, K_SampleID),
  Coalesce(Get(fields, K_Location),
           Str(PlaceholderPrefix \o NatDigits(idx))))))

\* r.id ?? r.sample_id ?? r.SampleID ?? r.Location ?? `sample-${idx + 1}`
ResolveId(fields, idx) ==
  Coalesce(Get(fields, K_id),
  Coalesce(Get(fields, K_sample_id),
  Coalesce(Get(fields, K_SampleID),
  Coalesce(Get(fields, K_Location),
           Str(PlaceholderPrefix \o NatDigits(idx + 1))))))

\* the callback of raw.map building the record without the fields of r
normalizeRecordNoSpread(r, idx) ==
  LET latitude  == pickNumberOwn(r, latKeys)
      longitude == pickNumberOwn(r, lonKeys)
      hpi == pickNumericAlt(r, hpiKeys)
      hei == pickNumericAlt(r, heiKeys)
      cd  == pickNumericAlt(r, cdKeys)
      id  == ResolveId(r.fields, idx)
      category == Coalesce(Get(r.fields, K_category),
                  Coalesce(Get(r.fields, K_Category),
                  Coalesce(Get(r.fields, K_status), UnknownCategory)))
  IN  Obj(Put(Put(Put(Put(Put(Put(Put(<<>>,
        K_id, id), K_latitude, latitude), K_longitude, longitude),
        K_hpi, hpi), K_hei, hei), K_cd, cd), K_category, category))

\* the callback of raw.map with latitude and longitude written to each
\* other's field
normalizeRecordSwapped(r, idx) ==
  LET latitude  == pickNumberOwn(r, latKeys)
      longitude == pickNumberOwn(r, lonKeys)
      hpi == pickNumericAlt(r, hpiKeys)
      hei == pickNumericAlt(r, heiKeys)
      cd  == pickNumericAlt(r, cdKeys)
      id  == ResolveId(r.fields, idx)
      category == Coalesce(Get(r.fields, K_category),
                  Coalesce(Get(r.fields, K_Category),
                  Coalesce(Get(r.fields, K_status), UnknownCategory)))
  IN  Obj(Put(Put(Put(Put(Put(Put(Put(r.fields,
        K_id, id), K_latitude, longitude), K_longitude, latitude),
        K_hpi, hpi), K_hei, hei), K_cd, cd), K_category, category))

\* the callback of raw.map in normalizeResults, for a record r that is not
\* null; idx is 0-based
normalizeRecord(r, idx) ==
  LET latitude  == pickNumberOwn(r, latKeys)
      longitude == pickNumberOwn(r, lonKeys)
      hpi == pickNumericAlt(r, hpiKeys)
      hei == pickNumericAlt(r, heiKeys)
      cd  == pickNumericAlt(r, cdKeys)
      id  == ResolveId(r.fields, idx)
      category == Coalesce(Get(r.fields, K_category),
                  Coalesce(Get(r.fields, K_Category),
                  Coalesce(Get(r.fields, K_status), UnknownCategory)))
  IN  Obj(Put(Put(Put(Put(Put(Put(Put(r.fields,
        K_id, id), K_latitude, latitude), K_longitude, longitude),
        K_hpi, hpi), K_hei, hei), K_cd, cd), K_category, category))

\* reading r.id of a null element throws a TypeError
NormalizeThrows(raw) == \E i \in 1..Len(raw) : raw[i].t = "null"

\* normalizeResults(raw), for raw without a null element
normalizeResults(raw) == [i \in 1..Len(raw) |-> normalizeRecord(raw[i], i - 1)]

\* the filter callback keeping a record on a numeric latitude alone
KeepRecordLatOnly(r) ==
  /\ Truthy(Get(r.fields, K_id))
  /\ \/ Get(r.fields, K_latitude).t = "number"
     \/ Get(r.fields, K_hpi).t = "number"
     \/ Get(r.fields, K_hei).t = "number"
     \/ Get(r.fields, K_cd).t = "number"

\* the filter callback of the load effect
KeepRecord(r) ==
  /\ Truthy(Get(r.fields, K_id))
  /\ \/ /\ Get(r.fields, K_latitude).t = "number"
        /\ Get(r.fields, K_longitude).t = "number"
     \/ Get(r.fields, K_hpi).t = "number"
     \/ Get(r.fields, K_hei).t = "number"
     \/ Get(r.fields, K_cd).t = "number"

\* what sessionStorage.getItem returns: null, or a text that is empty, is
\* not JSON, or is the JSON text of a value
NoItem      == [k |-> "null", empty |-> FALSE, valid |-> FALSE,
                json |-> NoArray("undefined")]
EmptyText   == [k |-> "string", empty |-> TRUE, valid |-> FALSE,
                json |-> NoArray("undefined")]
InvalidText == [k |-> "string", empty |-> FALSE, valid |-> FALSE,
                json |-> NoArray("undefined")]
JsonText(value) == [k |-> "string", empty |-> FALSE, valid |-> TRUE,
                    json |-> value]

\* !storedResults
IsNoData(stored) == stored.k = "null" \/ stored.empty

\* JSON.parse throws, the parsed value is not an array, or normalizeResults
\* throws
LoadThrows(stored) ==
  \/ ~stored.valid
  \/ stored.json.t # "array"
  \/ NormalizeThrows(stored.json.items)

MaxStored == 2

S_A7          == Str(<<"A","7">>)
S_Well        == Str(<<"W","e","l","l">>)
S_150         == Str(<<"1","5","0">>)
S_7           == Str(<<"7">>)
S_12          == Str(<<"1","2">>)
S_Hazardous   == Str(<<"H","a","z","a","r","d","o","u","s">>)
S_Safe        == Str(<<"S","a","f","e">>)
S_SlightlyPolluted == Str(<<"S","l","i","g","h","t","l","y"," ","P","o","l","l","u","t","e","d">>)

\* records the stored array may hold
StoredElements ==
  { \* as written by the upload page, coordinates present
    Obj(<<Entry(K_id, S_S1), Entry(K_latitude, Num(Int2Num(34))),
          Entry(K_longitude, Num(Fin(771, 10))),
          Entry(K_hpi, Num(Fin(10897, 100))), Entry(K_hei, Num(Fin(317, 100))),
          Entry(K_cd, Num(Fin(317, 100))),
          Entry(K_category, S_SlightlyPolluted),
          Entry(K_metals, ObjVal(<<Entry(K_Cd, Num(Fin(2, 1000))),
                                   Entry(K_Pb, Num(Fin(25, 1000)))>>))>>),
    \* as written by the upload page, no coordinates, all indices 0
    Obj(<<Entry(K_id, S_S2), Entry(K_hpi, Num(Zero)), Entry(K_hei, Num(Zero)),
          Entry(K_cd, Num(Zero)), Entry(K_category, S_Safe)>>),
    \* coordinates under synonyms only, no id
    Obj(<<Entry(K_lat, S_12), Entry(K_lng, S_77_1)>>),
    \* an id but nothing numeric
    Obj(<<Entry(K_id, S_S1), Entry(K_latitude, S_na), Entry(K_hpi, Null),
          Entry(K_HPI, S_trace)>>),
    \* an empty id
    Obj(<<Entry(K_id, EmptyStr), Entry(K_hpi, Num(Int2Num(5)))>>),
    \* the id 0
    Obj(<<Entry(K_id, Num(Zero)), Entry(K_HPI, S_7)>>),
    \* a latitude without a longitude, id under a synonym
    Obj(<<Entry(K_id, Null), Entry(K_sample_id, S_A7),
          Entry(K_Latitude, Num(Int2Num(12)))>>),
    \* id, index and category under synonyms
    Obj(<<Entry(K_Location, S_Well), Entry(K_hpi_value, S_150),
          Entry(K_status, S_Hazardous)>>),
    \* unusable first candidates, coordinates only
    Obj(<<Entry(K_id, S_S1), Entry(K_latitude, EmptyStr),
          Entry(K_lat, Num(Int2Num(5))), Entry(K_longitude, Null),
          Entry(K_Lon, Num(Int2Num(6)))>>),
    \* two different coordinates under competing synonyms
    Obj(<<Entry(K_lat, Num(Int2Num(12))), Entry(K_Latitude, S_m3_5),
          Entry(K_Lng, Num(Int2Num(5))), Entry(K_SampleID, S_S2)>>),
    NullElement }

\* what the session storage may hold when the page mounts
StoredPayloads ==
  {NoItem, EmptyText, InvalidText, JsonText(NoArray("object")),
   JsonText(NoArray("number")), JsonText(NoArray("null"))}
  \cup {JsonText(Array(r)) :
          r \in UNION {[1..n -> StoredElements] : n \in 0..MaxStored}}

(***************************************************************************)
(* Upload page: files and schema validation                                *)
(***************************************************************************)
MaxRuns == 2

K_PbPadded == <<" ","P","b">>

metalCandidates ==
  << <<"c","d">>, <<"p","b">>, <<"c","r">>, <<"n","i">>, <<"a","s">>,
     <<"c","u">>, <<"z","n">>, <<"h","g">>, <<"f","e">>, <<"m","n">> >>

\* JSON.parse(JSON.stringify(v)) of a number or string: a number that is not
\* finite becomes null
JsonValue(v) == IF v.t = "number" /\ v.num.k # "fin" THEN Null ELSE v

\* the category as a string value
CategoryStr(category) ==
  CASE category = "Safe"              -> S_Safe
    [] category = "Slightly Polluted" -> S_SlightlyPolluted
    [] category = "Hazardous"         -> S_Hazardous

\* JSON.parse(JSON.stringify(result)) of one result of processWaterSamples:
\* a field that is undefined is left out
JsonRecord(result) ==
  Obj(<<Entry(K_id, result.id)>>
      \o (IF result.latitude = Undefined THEN <<>>
          ELSE <<Entry(K_latitude, JsonValue(result.latitude))>>)
      \o (IF result.longitude = Undefined THEN <<>>
          ELSE <<Entry(K_longitude, JsonValue(result.longitude))>>)
      \o <<Entry(K_hpi, JsonValue(Num(result.hpi))),
           Entry(K_hei, JsonValue(Num(result.hei))),
           Entry(K_cd, JsonValue(Num(result.cd))),
           Entry(K_category, CategoryStr(result.category)),
           Entry(K_metals,
                 ObjVal([j \in 1..Len(result.metals) |->
                           Entry(result.metals[j].k,
                                 JsonValue(result.metals[j].v))]))>>)

\* validateSchema(rows).ok
validateSchema(rows) ==
  IF rows = <<>> THEN FALSE
  ELSE LET keys         == ObjectKeys(rows[1])
           lowerHeaders == [i \in 1..Len(keys) |-> ToLowerCase(Trim(keys[i]))]
           hasMetal     == \E i \in 1..Len(keys) :
                             Includes(metalCandidates, lowerHeaders[i])
           isMetal(k)   == Includes(metalCandidates, ToLowerCase(k))
           metalCols    == SelectSeq(keys, isMetal)
       IN  hasMetal /\ metalCols # <<>>

\* processWaterSamples(samples) for an array of rows, as one value
ProcessAll(rows) ==
  IF rows = <<>> THEN <<>>
  ELSE [i \in 1..Len(rows) |->
          RowResult(rows[i], i - 1, InferMetalColumns(rows[1]))]

\* what processFile stores for the rows of a file
Payload(rows) ==
  JsonText(Array([i \in 1..Len(rows) |-> JsonRecord(ProcessAll(rows)[i])]))

\* a File: its size against MAX_FILE_SIZE, the last dot-separated part of its
\* name, whether its content parses, and the rows it parses to
File(name, tooLarge, ext, parses, data) ==
  [name |-> name, tooLarge |-> tooLarge, ext |-> ext, parses |-> parses,
   data |-> data]

NoFile == File("", FALSE, <<>>, FALSE, <<>>)

E_csv  == <<"c","s","v">>
E_CSV  == <<"C","S","V">>
E_xlsx == <<"x","l","s","x">>
E_xls  == <<"x","l","s">>
E_pdf  == <<"p","d","f">>

\* file.name.split(".").pop()?.toLowerCase()
fileExtension(file) == ToLowerCase(file.ext)

F_a       == File("a.CSV", FALSE, E_CSV, TRUE, <<DefaultId \o DefaultMetals>>)
F_b       == File("b.xlsx", FALSE, E_xlsx, TRUE,
                  <<DefaultId \o <<Entry(K_Cd, S_0_002), Entry(K_Pb, S_0_025)>>>>)
F_large   == File("large.csv", TRUE, E_csv, TRUE, <<DefaultId \o DefaultMetals>>)
F_pdf     == File("report.pdf", FALSE, E_pdf, TRUE, <<DefaultId \o DefaultMetals>>)
F_broken  == File("broken.csv", FALSE, E_csv, FALSE, <<>>)
F_nometal == File("nometal.xls", FALSE, E_xls, TRUE,
                  <<DefaultId \o <<Entry(K_Xx, S_0_99996)>>>>)
F_padded  == File("padded.csv", FALSE, E_csv, TRUE,
                  <<DefaultId \o <<Entry(K_PbPadded, S_0_02)>>>>)

\* the files a user may drop or choose
Files == {F_a, F_b, F_large, F_pdf, F_broken, F_nometal, F_padded}

\* each file with JSON.stringify(processWaterSamples(data)) for its rows
StoredTable == {<<file, Payload(file.data)>> : file \in Files}

\* the files whose rows pass validateSchema
ValidFiles == {file \in Files : validateSchema(file.data)}

\* JSON.stringify(processWaterSamples(data)) for the rows of a file
StoredFor(file) == (CHOOSE p \in StoredTable : p[1] = file)[2]

(***************************************************************************)
(* Results page: search, category filter and pagination                    *)
(***************************************************************************)
PAGE_SIZE == 12

\* the largest number of stored records of the lists that are paged
MaxView == 25

\* s.includes(q)
StringIncludes(s, q) ==
  \E i \in 0..(Len(s) - Len(q)) : SubSeq(s, i + 1, i + Len(q)) = q

\* arr.slice(from, to), for 0 <= from <= to
Slice(arr, from, to) ==
  LET a == IF from < Len(arr) THEN from ELSE Len(arr)
      b == IF to < Len(arr) THEN to ELSE Len(arr)
  IN  SubSeq(arr, a + 1, b)

\* the callback of the query filter, for the trimmed and lower-cased query q
MatchesQuery(r, q) ==
  LET latitude  == Get(r.fields, K_latitude)
      longitude == Get(r.fields, K_longitude)
  IN  \/ StringIncludes(ToLowerCase(JSString(Get(r.fields, K_id))), q)
      \/ /\ latitude.t = "number"
         /\ StringIncludes(ToLowerCase(JSString(latitude)), q)
      \/ /\ longitude.t = "number"
         /\ StringIncludes(ToLowerCase(JSString(longitude)), q)

\* the filtered memo
Filtered(list, q, filter) ==
  LET byQuery ==
        IF Trim(q) # <<>>
        THEN SelectSeq(list, LAMBDA r : MatchesQuery(r, ToLowerCase(Trim(q))))
        ELSE list
  IN  IF Truthy(filter)
      THEN SelectSeq(byQuery, LAMBDA r : Get(r.fields, K_category) = filter)
      ELSE byQuery

\* Math.max(1, Math.ceil(n / PAGE_SIZE))
TotalPages(n) ==
  LET ceil == (n + PAGE_SIZE - 1) \div PAGE_SIZE
  IN  IF ceil > 1 THEN ceil ELSE 1

\* filtered.slice((page - 1) * PAGE_SIZE, page * PAGE_SIZE)
Paged(list, p) == Slice(list, (p - 1) * PAGE_SIZE, p * PAGE_SIZE)

\* the values of the options of the category select: "" and the categories
\* of the results
CategoryOptions(list) ==
  {EmptyStr} \cup
  {Str(JSString(Coalesce(Get(list[i].fields, K_category), UnknownCategory))) :
     i \in 1..Len(list)}

\* the i-th record of a stored list that is long enough to be paged: three
\* records in five are Safe, every second one has coordinates
ViewElement(i) ==
  Obj(<<Entry(K_id, Str(<<"S">> \o NatDigits(i))),
        Entry(K_hpi, Num(Int2Num(10 * i))),
        Entry(K_category,
              IF i % 5 = 0 THEN S_Hazardous
              ELSE IF i % 5 = 1 THEN S_SlightlyPolluted
              ELSE S_Safe)>>
      \o (IF i % 2 = 0
          THEN <<Entry(K_latitude, Num(Int2Num(10 + i))),
                 Entry(K_longitude, Num(Int2Num(77)))>>
          ELSE <<>>))

\* the lengths of the stored lists: none, one, a full page, one more, the most
ViewCounts == {0, 1, PAGE_SIZE, PAGE_SIZE + 1, MaxView}

\* the stored texts that are paged
ViewPayloads ==
  {JsonText(Array([i \in 1..n |-> ViewElement(i)])) : n \in ViewCounts}

\* what a user types into the search box
Queries ==
  {<<" ">>, <<"s">>, <<"s","1">>, <<"S","2"," ">>, <<"7","7">>, <<"1","2">>,
   <<"z">>}

(***************************************************************************)
(* Visualization map and GeoJSON export                                    *)
(***************************************************************************)
\* the filter callback of samplesWithCoordinates, testing the types
OnMapNumbers(r) ==
  /\ Get(r.fields, K_latitude).t = "number"
  /\ Get(r.fields, K_longitude).t = "number"

\* the filter callback of samplesWithCoordinates: r.latitude && r.longitude
OnMap(r) ==
  /\ Truthy(Get(r.fields, K_latitude))
  /\ Truthy(Get(r.fields, K_longitude))

\* the filter callback of exportToGeoJSON
IsFeature(r) ==
  /\ Get(r.fields, K_latitude).t = "number"
  /\ Get(r.fields, K_longitude).t = "number"

\* the rows exportToGeoJSON(rows) makes features of
FeatureRows(rows) == SelectSeq(rows, IsFeature)

(***************************************************************************)
(* State                                                                   *)
(***************************************************************************)
VARIABLES
  pc,            \* position in processWaterSamples
  samples,       \* the argument
  metalColumns,  \* the inferred metal columns
  inferred,      \* TRUE once the metal columns have been computed
  index,         \* 0-based position of the next row to map
  results,       \* the results built so far; the return value when done
  storedResults, \* the item "waterAnalysisResults" of the session storage
  mounted,       \* TRUE once the load effect of the Results page has run
  normalized,    \* the value of normalizeResults(parsed) in the load effect
  pageResults,   \* the results state of the Results page
  toastTitle,    \* title of the toast shown by the load effect, "" if none
  navigatedTo,   \* target of the navigation by the load effect, "" if none
  runs,          \* the calls of processFile: position and file of each
  isProcessing,  \* the isProcessing state of the Upload page
  uploadedFile,  \* the uploadedFile state of the Upload page
  uploadToast,   \* title of the last toast of the Upload page, "" if none
  timers,        \* pending setTimeout(navigate("/results")) callbacks
  location,      \* the route shown
  query,         \* the query state of the Results page
  categoryFilter,\* the categoryFilter state of the Results page
  page,          \* the page state of the Results page
  vizMounted,    \* TRUE once the load effect of the Visualization page has run
  vizResults     \* the results state of the Visualization page

calcVars == <<pc, samples, metalColumns, inferred, index, results>>
pageVars == <<storedResults, mounted, normalized, pageResults, toastTitle,
              navigatedTo>>
uploadVars == <<runs, isProcessing, uploadedFile, uploadToast, timers,
                location>>
viewVars == <<query, categoryFilter, page>>
vizVars == <<vizMounted, vizResults>>
vars == <<calcVars, pageVars, uploadVars, viewVars, vizVars>>

Init ==
  /\ pc = "idle"
  /\ samples = NoArray("undefined")
  /\ metalColumns = <<>>
  /\ inferred = FALSE
  /\ index = 0
  /\ results = <<>>
  /\ storedResults = NoItem
  /\ mounted = FALSE
  /\ normalized = NoArray("undefined")
  /\ pageResults = <<>>
  /\ toastTitle = ""
  /\ navigatedTo = ""
  /\ runs = [r \in 1..MaxRuns |-> [pc |-> "idle", file |-> NoFile]]
  /\ isProcessing = FALSE
  /\ uploadedFile = NoFile
  /\ uploadToast = ""
  /\ timers = 0
  /\ location = "/upload"
  /\ query = <<>>
  /\ categoryFilter = Null
  /\ page = 1
  /\ vizMounted = FALSE
  /\ vizResults = Array(<<>>)

\* a caller invokes processWaterSamples(s)
Invoke ==
  /\ pc = "idle"
  /\ \E s \in Inputs : samples' = s
  /\ pc' = "entry"
  /\ UNCHANGED <<metalColumns, inferred, index, results>>
  /\ UNCHANGED <<pageVars, uploadVars, viewVars, vizVars>>

\* the entry guard without the length test
IsEmptyInputNoLength(s) == s.t # "array"

\* !samples || samples.length === 0
IsEmptyInput(s) == s.t # "array" \/ Len(s.items) = 0

\* if (!samples || samples.length === 0) return [];
ReturnEmpty ==
  /\ pc = "entry"
  /\ IsEmptyInput(samples)
  /\ results' = <<>>
  /\ pc' = "done"
  /\ UNCHANGED <<samples, metalColumns, inferred, index>>
  /\ UNCHANGED <<pageVars, uploadVars, viewVars, vizVars>>

\* metalColumns is computed from samples[0]; Object.keys(undefined) throws
InferColumns ==
  /\ pc = "entry"
  /\ ~IsEmptyInput(samples)
  /\ IF samples.items = <<>>
     THEN /\ pc' = "threw"
          /\ UNCHANGED <<metalColumns, inferred>>
     ELSE /\ metalColumns' = InferMetalColumns(samples.items[1])
          /\ inferred' = TRUE
          /\ pc' = "map"
  /\ UNCHANGED <<samples, index, results>>
  /\ UNCHANGED <<pageVars, uploadVars, viewVars, vizVars>>

\* MapRow inferring the metal columns again from the row it maps
MapRowPerRowSchema ==
  /\ pc = "map"
  /\ index < Len(samples.items)
  /\ results' = Append(results,
                       RowResult(samples.items[index + 1], index,
                                 InferMetalColumns(samples.items[index + 1])))
  /\ index' = index + 1
  /\ UNCHANGED <<pc, samples, metalColumns, inferred>>
  /\ UNCHANGED <<pageVars, uploadVars, viewVars, vizVars>>

\* MapRow putting each new result in front of the earlier ones
MapRowUnshift ==
  /\ pc = "map"
  /\ index < Len(samples.items)
  /\ results' = <<RowResult(samples.items[index + 1], index, metalColumns)>>
                 \o results
  /\ index' = index + 1
  /\ UNCHANGED <<pc, samples, metalColumns, inferred>>
  /\ UNCHANGED <<pageVars, uploadVars, viewVars, vizVars>>

\* one iteration of samples.map
MapRow ==
  /\ pc = "map"
  /\ index < Len(samples.items)
  /\ results' = Append(results,
                       RowResult(samples.items[index + 1], index, metalColumns))
  /\ index' = index + 1
  /\ UNCHANGED <<pc, samples, metalColumns, inferred>>
  /\ UNCHANGED <<pageVars, uploadVars, viewVars, vizVars>>

\* samples.map has visited every row
Return ==
  /\ pc = "map"
  /\ index = Len(samples.items)
  /\ pc' = "done"
  /\ UNCHANGED <<samples, metalColumns, inferred, index, results>>
  /\ UNCHANGED <<pageVars, uploadVars, viewVars, vizVars>>

Next == Invoke \/ ReturnEmpty \/ InferColumns \/ MapRow \/ Return

Spec == Init /\ [][Next]_vars

\* sessionStorage.setItem("waterAnalysisResults", ...), once, before the page
\* mounts
SetItem ==
  /\ ~mounted
  /\ storedResults = NoItem
  /\ \E payload \in StoredPayloads \ {NoItem} : storedResults' = payload
  /\ UNCHANGED <<mounted, normalized, pageResults, toastTitle, navigatedTo>>
  /\ UNCHANGED <<calcVars, uploadVars, viewVars, vizVars>>

\* the load effect with nothing stored, leaving the user on the page
LoadNoDataStay ==
  /\ ~mounted
  /\ IsNoData(storedResults)
  /\ mounted' = TRUE
  /\ toastTitle' = "No Data Found"
  /\ UNCHANGED <<storedResults, normalized, pageResults, navigatedTo>>
  /\ UNCHANGED <<calcVars, uploadVars, viewVars, vizVars>>

\* the load effect when nothing is stored
LoadNoData ==
  /\ ~mounted
  /\ IsNoData(storedResults)
  /\ mounted' = TRUE
  /\ toastTitle' = "No Data Found"
  /\ navigatedTo' = "/upload"
  /\ UNCHANGED <<storedResults, normalized, pageResults>>
  /\ UNCHANGED <<calcVars, uploadVars, viewVars, vizVars>>

\* the load effect ending in its catch block
LoadCorrupt ==
  /\ ~mounted
  /\ ~IsNoData(storedResults)
  /\ LoadThrows(storedResults)
  /\ mounted' = TRUE
  /\ toastTitle' = "Corrupt Data"
  /\ navigatedTo' = "/upload"
  /\ UNCHANGED <<storedResults, normalized, pageResults>>
  /\ UNCHANGED <<calcVars, uploadVars, viewVars, vizVars>>

\* the load effect running its try block to the end
LoadResults ==
  /\ ~mounted
  /\ ~IsNoData(storedResults)
  /\ ~LoadThrows(storedResults)
  /\ mounted' = TRUE
  /\ normalized' = Array(normalizeResults(storedResults.json.items))
  /\ pageResults' = SelectSeq(normalized'.items, KeepRecord)
  /\ UNCHANGED <<storedResults, toastTitle, navigatedTo>>
  /\ UNCHANGED <<calcVars, uploadVars, viewVars, vizVars>>

\* processFile storing the results processWaterSamples returned
StoreResults ==
  /\ pc = "done"
  /\ pc' = "stored"
  /\ storedResults' =
       JsonText(Array([i \in 1..Len(results) |-> JsonRecord(results[i])]))
  /\ UNCHANGED <<samples, metalColumns, inferred, index, results>>
  /\ UNCHANGED <<mounted, normalized, pageResults, toastTitle, navigatedTo>>
  /\ UNCHANGED <<uploadVars, viewVars, vizVars>>

\* the Results page mounting after the upload page stored the results
LoadStored ==
  /\ pc = "stored"
  /\ LoadResults

NextHandoff == Next \/ StoreResults \/ LoadStored

SpecHandoff == Init /\ [][NextHandoff]_vars

NextLoad == SetItem \/ LoadNoData \/ LoadCorrupt \/ LoadResults

SpecLoad == Init /\ [][NextLoad]_vars

\* processFile(file) up to its first await: the run r starts, and ends at
\* once in the catch block when the file is too large or of another format
ProcessFileStart(r, file) ==
  /\ location = "/upload"
  /\ runs[r].pc = "idle"
  /\ \A q \in 1..(r - 1) : runs[q].pc # "idle"
  /\ uploadedFile' = file
  /\ IF file.tooLarge \/ fileExtension(file) \notin {E_csv, E_xlsx, E_xls}
     THEN /\ runs' = [runs EXCEPT ![r] = [pc |-> "finished", file |-> file]]
          /\ isProcessing' = FALSE
          /\ uploadToast' = "Upload Error"
     ELSE /\ runs' = [runs EXCEPT ![r] = [pc |-> "reading", file |-> file]]
          /\ isProcessing' = TRUE
          /\ UNCHANGED uploadToast
  /\ UNCHANGED <<timers, location>>
  /\ UNCHANGED <<calcVars, pageVars, viewVars, vizVars>>

\* a file is dropped on the card
handleDrop ==
  \E r \in 1..MaxRuns : \E file \in Files : ProcessFileStart(r, file)

\* a file is chosen with the file input, which isProcessing disables
handleFileInput ==
  /\ ~isProcessing
  /\ \E r \in 1..MaxRuns : \E file \in Files : ProcessFileStart(r, file)

\* the catch block of processFile
CatchError(r) ==
  /\ runs' = [runs EXCEPT ![r].pc = "finished"]
  /\ isProcessing' = FALSE
  /\ uploadToast' = "Upload Error"
  /\ UNCHANGED <<storedResults, timers>>

\* the exit of processFile on a failed validation, leaving isProcessing set
SchemaFailureStuck(r) ==
  /\ runs' = [runs EXCEPT ![r].pc = "finished"]
  /\ uploadToast' = "Schema validation failed"
  /\ UNCHANGED <<isProcessing, storedResults, timers>>

\* the exit of processFile on a failed validation
SchemaFailure(r) ==
  /\ runs' = [runs EXCEPT ![r].pc = "finished"]
  /\ isProcessing' = FALSE
  /\ uploadToast' = "Schema validation failed"
  /\ UNCHANGED <<storedResults, timers>>

\* the store step skipped unless the run's file is the one shown
StoreAndFinishIfCurrent(r) ==
  /\ runs' = [runs EXCEPT ![r].pc = "finished"]
  /\ storedResults' = IF uploadedFile = runs[r].file
                      THEN StoredFor(runs[r].file)
                      ELSE storedResults
  /\ isProcessing' = FALSE
  /\ uploadToast' = "Success"
  /\ timers' = timers + 1

\* processWaterSamples, sessionStorage.setItem, and the navigation timer
StoreAndFinish(r) ==
  /\ runs' = [runs EXCEPT ![r].pc = "finished"]
  /\ storedResults' = StoredFor(runs[r].file)
  /\ isProcessing' = FALSE
  /\ uploadToast' = "Success"
  /\ timers' = timers + 1

\* the rest of processFile without the validation
ValidateAndStoreUnchecked(r) == StoreAndFinish(r)

\* the rest of processFile once the rows are parsed
ValidateAndStore(r) ==
  IF runs[r].file \in ValidFiles
  THEN StoreAndFinish(r)
  ELSE SchemaFailure(r)

\* file.text() or file.arrayBuffer() resolves: a CSV goes on to await its
\* parse, a workbook is read at once
ReadDone(r) ==
  /\ runs[r].pc = "reading"
  /\ IF fileExtension(runs[r].file) = E_csv
     THEN /\ runs' = [runs EXCEPT ![r].pc = "parsing"]
          /\ UNCHANGED <<storedResults, isProcessing, uploadToast, timers>>
     ELSE IF runs[r].file.parses THEN ValidateAndStore(r) ELSE CatchError(r)
  /\ UNCHANGED <<uploadedFile, location>>
  /\ UNCHANGED <<mounted, normalized, pageResults, toastTitle, navigatedTo>>
  /\ UNCHANGED <<calcVars, viewVars, vizVars>>

\* parseCSVBuffer(text) resolves or rejects
ParseDone(r) ==
  /\ runs[r].pc = "parsing"
  /\ IF runs[r].file.parses THEN ValidateAndStore(r) ELSE CatchError(r)
  /\ UNCHANGED <<uploadedFile, location>>
  /\ UNCHANGED <<mounted, normalized, pageResults, toastTitle, navigatedTo>>
  /\ UNCHANGED <<calcVars, viewVars, vizVars>>

\* the Clear button
clearPreview ==
  /\ location = "/upload"
  /\ uploadedFile' = NoFile
  /\ UNCHANGED <<runs, isProcessing, uploadToast, timers, location>>
  /\ UNCHANGED <<calcVars, pageVars, viewVars, vizVars>>

\* a navigation timer fires
TimerFires ==
  /\ timers > 0
  /\ timers' = timers - 1
  /\ location' = "/results"
  /\ UNCHANGED <<runs, isProcessing, uploadedFile, uploadToast>>
  /\ UNCHANGED <<calcVars, pageVars, viewVars, vizVars>>

NextUpload ==
  \/ handleDrop
  \/ handleFileInput
  \/ \E r \in 1..MaxRuns : ReadDone(r)
  \/ \E r \in 1..MaxRuns : ParseDone(r)
  \/ clearPreview
  \/ TimerFires

SpecUpload == Init /\ [][NextUpload]_vars

\* the event loop runs every continuation and every timer that is due; a
\* continuation always moves its run's position and a timer always leaves the
\* timer count, so fairness is stated on those variables
SpecUploadFair ==
  /\ SpecUpload
  /\ \A r \in 1..MaxRuns : WF_runs(ReadDone(r)) /\ WF_runs(ParseDone(r))
  /\ WF_timers(TimerFires)

\* sessionStorage.setItem("waterAnalysisResults", ...) with a list long
\* enough to be paged, once, before the page mounts
SetItemMany ==
  /\ ~mounted
  /\ storedResults = NoItem
  /\ \E payload \in ViewPayloads : storedResults' = payload
  /\ UNCHANGED <<mounted, normalized, pageResults, toastTitle, navigatedTo>>
  /\ UNCHANGED <<calcVars, uploadVars, viewVars, vizVars>>

\* the Results page is shown
Shown == mounted /\ navigatedTo = ""

\* the filtered list, the number of pages and the slice of the render
filtered == Filtered(pageResults, query, categoryFilter)
totalPages == TotalPages(Len(filtered))
paged == Paged(filtered, page)

\* the search box changes without the page being reset
onQueryChangeKeepPage ==
  /\ Shown
  /\ \E q \in Queries \cup {<<>>} : q # query /\ query' = q
  /\ UNCHANGED <<categoryFilter, page>>
  /\ UNCHANGED <<calcVars, pageVars, uploadVars, vizVars>>

\* onChange of the search box
onQueryChange ==
  /\ Shown
  /\ \E q \in Queries \cup {<<>>} : q # query /\ query' = q
  /\ page' = 1
  /\ UNCHANGED categoryFilter
  /\ UNCHANGED <<calcVars, pageVars, uploadVars, vizVars>>

\* the clear button of the search box, rendered while query is not empty
clearSearch ==
  /\ Shown
  /\ query # <<>>
  /\ query' = <<>>
  /\ UNCHANGED <<categoryFilter, page>>
  /\ UNCHANGED <<calcVars, pageVars, uploadVars, vizVars>>

\* onChange of the category select
onCategoryChange ==
  /\ Shown
  /\ \E v \in CategoryOptions(pageResults) :
       /\ v # Coalesce(categoryFilter, EmptyStr)
       /\ categoryFilter' = IF v = EmptyStr THEN Null ELSE v
  /\ page' = 1
  /\ UNCHANGED query
  /\ UNCHANGED <<calcVars, pageVars, uploadVars, vizVars>>

\* the Reset button
resetFilters ==
  /\ Shown
  /\ query' = <<>>
  /\ categoryFilter' = Null
  /\ page' = 1
  /\ UNCHANGED <<calcVars, pageVars, uploadVars, vizVars>>

\* the First button, disabled on page 1
FirstPage ==
  /\ Shown
  /\ page # 1
  /\ page' = 1
  /\ UNCHANGED <<query, categoryFilter>>
  /\ UNCHANGED <<calcVars, pageVars, uploadVars, vizVars>>

\* the Prev button, disabled on page 1
PrevPage ==
  /\ Shown
  /\ page # 1
  /\ page' = (IF page - 1 > 1 THEN page - 1 ELSE 1)
  /\ UNCHANGED <<query, categoryFilter>>
  /\ UNCHANGED <<calcVars, pageVars, uploadVars, vizVars>>

\* the Next button, disabled on the last page
NextPage ==
  /\ Shown
  /\ page # totalPages
  /\ page' = (IF page + 1 < totalPages THEN page + 1 ELSE totalPages)
  /\ UNCHANGED <<query, categoryFilter>>
  /\ UNCHANGED <<calcVars, pageVars, uploadVars, vizVars>>

\* the Last button, disabled on the last page
LastPage ==
  /\ Shown
  /\ page # totalPages
  /\ page' = totalPages
  /\ UNCHANGED <<query, categoryFilter>>
  /\ UNCHANGED <<calcVars, pageVars, uploadVars, vizVars>>

NextView ==
  \/ SetItemMany
  \/ LoadResults
  \/ onQueryChange
  \/ clearSearch
  \/ onCategoryChange
  \/ resetFilters
  \/ FirstPage
  \/ PrevPage
  \/ NextPage
  \/ LastPage

SpecView == Init /\ [][NextView]_vars

\* the load effect of the Visualization page when JSON.parse returns
LoadVisualization ==
  /\ ~vizMounted
  /\ ~IsNoData(storedResults)
  /\ storedResults.valid
  /\ vizMounted' = TRUE
  /\ vizResults' = storedResults.json
  /\ UNCHANGED <<calcVars, pageVars, uploadVars, viewVars>>

\* the load effect of the Visualization page when nothing is stored
LoadVisualizationNoData ==
  /\ ~vizMounted
  /\ IsNoData(storedResults)
  /\ vizMounted' = TRUE
  /\ toastTitle' = "No Data Found"
  /\ UNCHANGED vizResults
  /\ UNCHANGED <<storedResults, mounted, normalized, pageResults, navigatedTo>>
  /\ UNCHANGED <<calcVars, uploadVars, viewVars>>

\* the samples of the map
samplesWithCoordinates == SelectSeq(vizResults.items, OnMap)

NextMap ==
  \/ Next
  \/ StoreResults
  \/ LoadStored
  \/ LoadVisualization
  \/ LoadVisualizationNoData

SpecMap == Init /\ [][NextMap]_vars

TypeOK ==
  /\ pc \in {"idle", "entry", "map", "done", "threw", "stored"}
  /\ index \in 0..MaxRows
  /\ Len(results) = index

(***************************************************************************)
(* Properties                                                              *)
(***************************************************************************)
\* the rows mapped so far, 1-based
Mapped == 1..Len(results)
RowAt(i) == samples.items[i]

\* the unrounded hpi of row i, as the map callback computes it
RawHpi(i) == calculateHPI(RowAt(i), metalColumns)

RECURSIVE SeqSum(_)
SeqSum(xs) == IF xs = <<>> THEN Zero ELSE NumAdd(Head(xs), SeqSum(Tail(xs)))

\* C1: in every result the category agrees with the reported (2-decimal) hpi
\* of the same record: Safe iff hpi < 100, Slightly Polluted iff
\* 100 <= hpi < 200, Hazardous iff hpi >= 200.
C1_CategoryMatchesReportedHpi ==
  \A i \in Mapped :
    LET r == results[i]
    IN  /\ r.category = "Safe" <=> NumLt(r.hpi, Int2Num(100))
        /\ r.category = "Slightly Polluted" <=>
             (NumGeq(r.hpi, Int2Num(100)) /\ NumLt(r.hpi, Int2Num(200)))
        /\ r.category = "Hazardous" <=> NumGeq(r.hpi, Int2Num(200))

\* C2: the category of every result is decided by the hpi value handed to
\* categorizeWaterQuality alone, the boundaries belonging to the higher
\* category: below 100 Safe, from 100 and below 200 Slightly Polluted, from
\* 200 Hazardous.
C2_CategoryThresholds ==
  \A i \in Mapped :
    LET h == RawHpi(i)
        c == results[i].category
    IN  /\ c \in {"Safe", "Slightly Polluted", "Hazardous"}
        /\ h.k # "nan" =>
             /\ c = "Safe" <=> NumLt(h, Int2Num(100))
             /\ c = "Slightly Polluted" <=>
                  (NumGeq(h, Int2Num(100)) /\ NumLt(h, Int2Num(200)))
             /\ c = "Hazardous" <=> NumGeq(h, Int2Num(200))

\* C2 witness: a run whose rows have hpi exactly 100 (Slightly Polluted) and
\* exactly 200 (Hazardous).
C2_Witness ==
  /\ pc = "done"
  /\ \E i \in Mapped : RawHpi(i) = Int2Num(100)
                       /\ results[i].category = "Slightly Polluted"
  /\ \E i \in Mapped : RawHpi(i) = Int2Num(200)
                       /\ results[i].category = "Hazardous"

\* C3: calculateHEI and calculateCd return the same value for every mapped
\* row and the inferred metal columns, and every result has hei equal to cd.
C3_HeiEqualsCd ==
  \A i \in Mapped :
    /\ calculateHEI(RowAt(i), metalColumns) = calculateCd(RowAt(i), metalColumns)
    /\ results[i].hei = results[i].cd

\* C3 witness: a result over two metal columns with a positive hei.
C3_Witness ==
  \E i \in Mapped :
    /\ Len(metalColumns) >= 2
    /\ NumGt(results[i].hei, Zero)
    /\ results[i].cd = results[i].hei

\* C4: for a non-empty metal column list the hpi of a row is the weighted
\* mean sum(w * q) / sum(w), with w = 1 / limit and
\* q = (concentration / limit) * 100 taken over every listed metal, those of
\* concentration 0 included.
C4_HpiIsWeightedMean ==
  \A i \in Mapped :
    metalColumns # <<>> =>
      LET n  == Len(metalColumns)
          c  == [j \in 1..n |-> Concentration(RowAt(i), metalColumns[j])]
          l  == [j \in 1..n |-> Standard(metalColumns[j])]
          w  == [j \in 1..n |-> NumDiv(One, l[j])]
          wq == [j \in 1..n |->
                   NumMul(w[j], NumMul(NumDiv(c[j], l[j]), Hundred))]
      IN  RawHpi(i) = NumDiv(SeqSum(wq), SeqSum(w))

\* C5: when the inferred metal column set is empty, every row gets hpi = 0,
\* hei = 0, cd = 0, an empty metals map and category Safe, and the call does
\* not throw.
C5_EmptyMetalSet ==
  (inferred /\ metalColumns = <<>>) =>
    /\ pc # "threw"
    /\ \A i \in Mapped :
         /\ results[i].hpi = Zero
         /\ results[i].hei = Zero
         /\ results[i].cd = Zero
         /\ results[i].metals = <<>>
         /\ results[i].category = "Safe"

\* C5 witness: a finished run over two rows with an empty metal column set
\* whose second row does hold a metal value.
C5_Witness ==
  /\ pc = "done"
  /\ inferred
  /\ metalColumns = <<>>
  /\ Len(results) = 2
  /\ HasKey(RowAt(2), K_Pb)

\* C6: called with an empty, null or undefined row sequence,
\* processWaterSamples returns an empty result sequence without throwing,
\* without inferring the metal columns and without mapping any row.
C6_EmptyInputReturnsEmpty ==
  ((samples.t # "array" \/ samples.items = <<>>) /\ pc \notin {"idle", "entry"})
    => /\ pc = "done"
       /\ results = <<>>
       /\ ~inferred
       /\ metalColumns = <<>>
       /\ index = 0

\* C6 witness: the call on the empty array has returned.
C6_Witness ==
  /\ pc = "done"
  /\ samples.t = "array"
  /\ samples.items = <<>>
  /\ results = <<>>

\* C7: for n > 0 rows the call returns exactly n results, and the result at
\* position i is the one derived from the row at position i.
C7_OneResultPerRowInOrder ==
  /\ \A i \in Mapped :
       /\ i <= Len(samples.items)
       /\ results[i] = RowResult(RowAt(i), i - 1, metalColumns)
  /\ (pc = "done" /\ samples.t = "array") => Len(results) = Len(samples.items)

\* C7 witness: a finished run over two different rows with different results.
C7_Witness ==
  /\ pc = "done"
  /\ Len(results) = 2
  /\ RowAt(1) # RowAt(2)
  /\ results[1] # results[2]

\* C8: every result id is a non-empty string: the string form of the row's
\* id when that is present and non-empty, else "Sample {i+1}" for the row at
\* 0-based position i.
C8_IdNeverEmpty ==
  \A i \in Mapped :
    LET raw == Get(RowAt(i), K_id)
        id  == results[i].id
    IN  /\ id.t = "string"
        /\ id.str # <<>>
        /\ IF raw \in {Undefined, Null, EmptyStr}
           THEN id.str = <<"S","a","m","p","l","e"," ">> \o NatDigits(i)
           ELSE id.str = JSString(raw)

\* C8 witness: the second row has no usable id and gets "Sample 2", the first
\* has the numeric id 0 and gets "0".
C8_Witness ==
  /\ Len(results) = 2
  /\ Get(RowAt(1), K_id) = Num(Zero)
  /\ results[1].id = Str(<<"0">>)
  /\ Get(RowAt(2), K_id) = EmptyStr
  /\ results[2].id = Str(<<"S","a","m","p","l","e"," ","2">>)

\* a row without the non-metadata columns the first row does not have
FrozenRow(i) ==
  LET first == ObjectKeys(RowAt(1))
      keep(e) == Includes(first, e.k) \/ Includes(exclude, ToLowerCase(e.k))
  IN  SelectSeq(RowAt(i), keep)

\* C9: the metal column set is computed once from the first row and used
\* unchanged for every row: each result's metals map has the first row's
\* metal columns as keys, and a column absent from the first row contributes
\* nothing to a later row's hpi, hei and cd.
C9_SchemaFrozenFromFirstRow ==
  inferred =>
    LET first == InferMetalColumns(RowAt(1))
    IN  /\ metalColumns = first
        /\ \A i \in Mapped :
             LET alone == RowResult(FrozenRow(i), i - 1, first)
             IN  /\ ObjectKeys(results[i].metals) = first
                 /\ results[i].hpi = alone.hpi
                 /\ results[i].hei = alone.hei
                 /\ results[i].cd = alone.cd

\* C9 witness: the first row has the single metal column Pb, the second row
\* also holds a Cd value, and the second result has Pb alone in its metals.
C9_Witness ==
  /\ pc = "done"
  /\ Len(results) = 2
  /\ metalColumns = <<K_Pb>>
  /\ parseNumber(Get(RowAt(2), K_Cd)) # Undefined
  /\ ObjectKeys(results[2].metals) = <<K_Pb>>

\* the six metadata names
MetaNames == {K_id, K_latitude, K_longitude, K_lat, K_lon, K_lng}

\* C10: the inferred metal columns are exactly the first row's column names,
\* in the first row's key order, without the names whose lower-cased form is
\* one of id, latitude, longitude, lat, lon, lng.
C10_MetalColumnsByExclusion ==
  inferred =>
    LET keys == ObjectKeys(RowAt(1))
        want == {j \in 1..Len(keys) : ToLowerCase(keys[j]) \notin MetaNames}
    IN  /\ Len(metalColumns) = Cardinality(want)
        /\ \A a \in 1..Len(metalColumns) :
             \E j \in want :
               /\ keys[j] = metalColumns[a]
               /\ Cardinality({b \in want : b < j}) = a - 1

\* C10 witness: the first row has the columns Cd, ID, LAT, Pb, Longitude in
\* this order and the metal columns are Cd, Pb.
C10_Witness ==
  /\ inferred
  /\ ObjectKeys(RowAt(1)) = <<K_Cd, K_ID, K_LAT, K_Pb, K_Longitude>>
  /\ metalColumns = <<K_Cd, K_Pb>>

\* Number(String(v).trim()) of a cell
CellNumber(v) == StringToNumber(Trim(JSString(v)))

\* C11: in every result the metals map has exactly the inferred metal column
\* names as keys, each value being the number the row's cell coerces to, or 0
\* when the cell is missing, null, empty or a non-numeric string; such a cell
\* makes the call neither throw nor skip the row.
C11_MetalsMapCoerced ==
  /\ pc # "threw"
  /\ (pc = "done" /\ samples.t = "array") => Len(results) = Len(samples.items)
  /\ \A i \in Mapped :
       /\ ObjectKeys(results[i].metals) = metalColumns
       /\ \A j \in 1..Len(metalColumns) :
            LET cell == Get(RowAt(i), metalColumns[j])
                val  == results[i].metals[j].v
            IN  IF \/ cell \in {Undefined, Null, EmptyStr}
                   \/ CellNumber(cell).k = "nan"
                THEN val = Num(Zero)
                ELSE val = Num(CellNumber(cell))

\* C11 witness: a finished run whose second row has the cell "trace", a null
\* cell and a missing cell in metal columns, each reported as 0.
C11_Witness ==
  /\ pc = "done"
  /\ Len(results) = 2
  /\ metalColumns = <<K_Pb, K_Cd>>
  /\ Get(RowAt(2), K_Pb) = S_trace
  /\ Get(RowAt(2), K_Cd) = Null
  /\ results[2].metals = <<Entry(K_Pb, Num(Zero)), Entry(K_Cd, Num(Zero))>>
  /\ ~HasKey(RowAt(1), K_Xx)

\* C12: parseNumber returns absent for null, undefined and the empty string
\* and whenever the trimmed string form of the value does not parse to a
\* finite number; in every other case it returns the parsed finite number.
C12_ParseNumberFiniteOnly ==
  \A i \in Mapped :
    \A j \in 1..Len(RowAt(i)) :
      LET v == RowAt(i)[j].v
      IN  parseNumber(v) =
            IF v \in {Undefined, Null, EmptyStr} \/ CellNumber(v).k # "fin"
            THEN Undefined
            ELSE Num(CellNumber(v))

\* the first candidate key that is present with a value that parses, or 0
FirstUsable(row, keys) ==
  LET ok == {a \in 1..Len(keys) :
               /\ In(row, keys[a])
               /\ Get(row, keys[a]) \notin {Undefined, Null, EmptyStr}
               /\ CellNumber(Get(row, keys[a])).k # "nan"}
  IN  IF ok = {} THEN 0 ELSE CHOOSE a \in ok : \A b \in ok : a <= b

\* C13: latitude and longitude of every result are the parsed value of the
\* first candidate key, in the given order, that is present in the row with a
\* value that parses, an earlier unparsable key being skipped; absent when no
\* candidate qualifies.
C13_PickFirstParsable ==
  \A i \in Mapped :
    LET latCandidates == <<K_latitude, K_Latitude, K_lat>>
        lonCandidates == <<K_longitude, K_Longitude, K_lon, K_lng>>
        a == FirstUsable(RowAt(i), latCandidates)
        b == FirstUsable(RowAt(i), lonCandidates)
    IN  /\ results[i].latitude =
             IF a = 0 THEN Undefined
             ELSE Num(CellNumber(Get(RowAt(i), latCandidates[a])))
        /\ results[i].longitude =
             IF b = 0 THEN Undefined
             ELSE Num(CellNumber(Get(RowAt(i), lonCandidates[b])))

\* C13 witness: {lat: 12, latitude: 34} gives latitude 34; an unparsable
\* latitude followed by lat "-3.5" gives -3.5; a row without coordinate
\* columns gives none.
C13_Witness ==
  /\ Len(results) = 2
  /\ Get(RowAt(1), K_lat) = Num(Int2Num(12))
  /\ Get(RowAt(1), K_latitude) = Num(Int2Num(34))
  /\ results[1].latitude = Num(Int2Num(34))
  /\ Get(RowAt(2), K_latitude) = S_na
  /\ results[2].latitude = Num(Fin(-7, 2))

\* C14: for every metal column name the limit used is the standards-table
\* value when the name is exactly one of the table's symbols and 1 for every
\* other name, hence always strictly positive.
C14_LimitFromTableOrOne ==
  \A j \in 1..Len(metalColumns) :
    LET m     == metalColumns[j]
        exact == {a \in 1..Len(WHO_STANDARDS) : WHO_STANDARDS[a].k = m}
        limit == IF exact = {} THEN One
                 ELSE WHO_STANDARDS[CHOOSE a \in exact : TRUE].v.num
    IN  /\ Standard(m) = limit
        /\ NumGt(Standard(m), Zero)

\* the row of the end-to-end scenario
ScenarioRow ==
  <<Entry(K_id, S_S1), Entry(K_Cd, S_0_002), Entry(K_Pb, S_0_025)>>

\* C15: the single row {id: "S1", Cd: "0.002", Pb: "0.025"} yields one result
\* with id S1, metals {Cd: 0.002, Pb: 0.025}, hei = cd = 3.17, hpi within 0.1
\* of 109.0 and category "Slightly Polluted".
C15_EndToEndScenario ==
  (pc = "done" /\ samples = Array(<<ScenarioRow>>)) =>
    /\ Len(results) = 1
    /\ results[1].id = S_S1
    /\ results[1].metals = <<Entry(K_Cd, Num(Fin(2, 1000))),
                             Entry(K_Pb, Num(Fin(25, 1000)))>>
    /\ results[1].hei = Fin(317, 100)
    /\ results[1].cd = Fin(317, 100)
    /\ NumGeq(results[1].hpi, Fin(1089, 10))
    /\ NumGeq(Fin(1091, 10), results[1].hpi)
    /\ results[1].category = "Slightly Polluted"

\* C15 witness: the scenario has been processed.
C15_Witness ==
  /\ pc = "done"
  /\ samples = Array(<<ScenarioRow>>)
  /\ results[1].hpi = Fin(10897, 100)

\* reported is raw rounded to 2 decimals: reported * 100 is an integer and
\* differs from raw * 100 by at most 0.5
IsRoundedTo2(reported, raw) ==
  LET r == NumMul(reported, Hundred)
      x == NumMul(raw, Hundred)
  IN  /\ r.k = "fin"
      /\ r.d = 1
      /\ x.k = "fin"
      /\ NumGeq(NumAdd(r, Fin(1, 2)), x)
      /\ NumGeq(NumAdd(x, Fin(1, 2)), r)

\* C20: hpi, hei and cd of every result are the unrounded aggregates rounded
\* to 2 decimal places.
C20_RoundedTo2Decimals ==
  \A i \in Mapped :
    /\ IsRoundedTo2(results[i].hpi, RawHpi(i))
    /\ IsRoundedTo2(results[i].hei, calculateHEI(RowAt(i), metalColumns))
    /\ IsRoundedTo2(results[i].cd, calculateCd(RowAt(i), metalColumns))

\* the load effect ran normalizeResults to the end
Rehydrated == mounted /\ normalized.t = "array"

\* the stored text is the JSON text of an array
StoredIsJsonArray ==
  /\ storedResults.k = "string"
  /\ ~storedResults.empty
  /\ storedResults.valid
  /\ storedResults.json.t = "array"

\* field key of the i-th normalized record
Resolved(i, key) == Get(normalized.items[i].fields, key)

\* the i-th normalized record has a truthy id and either both coordinates or
\* one of the three indices as a number
Usable(i) ==
  /\ Resolved(i, K_id) \notin {Undefined, Null, EmptyStr, Num(Zero), Num(NaN)}
  /\ \/ /\ Resolved(i, K_latitude).t = "number"
        /\ Resolved(i, K_longitude).t = "number"
     \/ \E key \in {K_hpi, K_hei, K_cd} : Resolved(i, key).t = "number"

\* C16: after rehydration the results state holds exactly the normalized
\* records that are usable (truthy id, and both coordinates or at least one
\* of hpi, hei, cd a number), in their stored order; dropping a record shows
\* no error.
C16_FilterKeepsUsable ==
  Rehydrated =>
    LET kept == {i \in 1..Len(normalized.items) : Usable(i)}
    IN  /\ Len(pageResults) = Cardinality(kept)
        /\ \A n \in 1..Len(pageResults) :
             pageResults[n] =
               normalized.items[CHOOSE i \in kept :
                                  Cardinality({j \in kept : j <= i}) = n]
        /\ toastTitle = ""
        /\ navigatedTo = ""

\* C16 witness: of two stored records the first, with a latitude but no
\* longitude and no index, is dropped and the second is kept.
C16_Witness ==
  /\ Rehydrated
  /\ Len(normalized.items) = 2
  /\ Truthy(Resolved(1, K_id))
  /\ Resolved(1, K_latitude).t = "number"
  /\ ~Usable(1)
  /\ pageResults = <<normalized.items[2]>>

\* C17: normalizeResults applied to its own output gives, for every record,
\* the same id, latitude, longitude, hpi, hei, cd and category again.
C17_NormalizeIdempotent ==
  Rehydrated =>
    LET again == normalizeResults(normalized.items)
    IN  /\ Len(again) = Len(normalized.items)
        /\ \A i \in 1..Len(again) :
             \A key \in {K_id, K_latitude, K_longitude, K_hpi, K_hei, K_cd,
                         K_category} :
               Get(again[i].fields, key) = Resolved(i, key)

\* C17 witness: a rehydrated record whose latitude and longitude differ and
\* were both resolved from synonyms.
C17_Witness ==
  /\ Rehydrated
  /\ \E i \in 1..Len(normalized.items) :
       LET stored == storedResults.json.items[i].fields
       IN  /\ ~HasKey(stored, K_latitude)
           /\ ~HasKey(stored, K_longitude)
           /\ Resolved(i, K_latitude).t = "number"
           /\ Resolved(i, K_longitude).t = "number"
           /\ Resolved(i, K_latitude) # Resolved(i, K_longitude)

\* C18: when the stored payload is missing, is not valid JSON or parses to a
\* non-array value, the load ends with no record rehydrated, an empty results
\* state and the user sent to /upload; normalizeResults runs only on a JSON
\* array.
C18_NonArrayPayloadIsFatal ==
  /\ (mounted /\ ~StoredIsJsonArray) =>
       /\ normalized.t = "undefined"
       /\ pageResults = <<>>
       /\ navigatedTo = "/upload"
       /\ toastTitle \in {"No Data Found", "Corrupt Data"}
  /\ Rehydrated => StoredIsJsonArray

\* C18 witness: the page has loaded with the JSON text of an object stored,
\* and ended on /upload with nothing rehydrated.
C18_Witness ==
  /\ mounted
  /\ storedResults = JsonText(NoArray("object"))
  /\ normalized.t = "undefined"
  /\ navigatedTo = "/upload"

\* C19: when the stored payload is a JSON array of which no record survives
\* the filter, the load signals an empty-result condition: the user is told
\* or sent to /upload, and not with the signal of a corrupt payload.
C19_EmptyResultSurfaced ==
  (Rehydrated /\ pageResults = <<>>) =>
    /\ toastTitle # "" \/ navigatedTo # ""
    /\ toastTitle # "Corrupt Data"

\* the keys an id is resolved from, in order
idCandidates == <<K_id, K_sample_id, K_SampleID, K_Location>>

\* the i-th record of the stored array
StoredAt(i) == storedResults.json.items[i].fields

\* "sample-" followed by the 1-based position i
Placeholder(i) == Str(PlaceholderPrefix \o NatDigits(i))

\* C21 as stated: the resolved id is the value of the first of id, sample_id,
\* SampleID, Location that is present on the stored record, and "sample-{i+1}"
\* (i the 0-based stored position) when none is present.
C21_IdFirstPresentKey ==
  Rehydrated =>
    \A i \in 1..Len(normalized.items) :
      LET present == {a \in 1..Len(idCandidates) :
                        HasKey(StoredAt(i), idCandidates[a])}
          first   == CHOOSE a \in present : \A b \in present : a <= b
      IN  Resolved(i, K_id) =
            IF present = {} THEN Placeholder(i)
            ELSE Get(StoredAt(i), idCandidates[first])

\* C21 amended: the resolved id is the value of the first of id, sample_id,
\* SampleID, Location whose value on the stored record is neither null nor
\* undefined, and "sample-{i+1}" when there is none.
C21_IdFirstNonNullKey ==
  Rehydrated =>
    \A i \in 1..Len(normalized.items) :
      LET usable == {a \in 1..Len(idCandidates) :
                       Get(StoredAt(i), idCandidates[a]) \notin {Undefined, Null}}
          first  == CHOOSE a \in usable : \A b \in usable : a <= b
      IN  Resolved(i, K_id) =
            IF usable = {} THEN Placeholder(i)
            ELSE Get(StoredAt(i), idCandidates[first])

\* C21 witness: the first stored record has a null id and takes its id from
\* sample_id; the second has none of the keys and is named "sample-2".
C21_Witness ==
  /\ Rehydrated
  /\ Len(normalized.items) = 2
  /\ Get(StoredAt(1), K_id) = Null
  /\ Resolved(1, K_id) = S_A7
  /\ \A a \in 1..Len(idCandidates) : ~HasKey(StoredAt(2), idCandidates[a])
  /\ Resolved(2, K_id) = Str(<<"s","a","m","p","l","e","-","2">>)

\* the names normalizeResults writes its resolved values under
resolvedNames ==
  {K_id, K_latitude, K_longitude, K_hpi, K_hei, K_cd, K_category}

C23_HandoffRoundTrip ==
  ( /\ pc = "stored"
    /\ mounted
    /\ results # <<>>
    /\ \A i \in 1..Len(results) :
         /\ results[i].hpi.k = "fin"
         /\ results[i].hei.k = "fin"
         /\ results[i].cd.k = "fin" ) =>
    /\ Len(pageResults) = Len(results)
    /\ \A i \in 1..Len(results) :
         LET shown == pageResults[i].fields
         IN  /\ Get(shown, K_id) = results[i].id
             /\ Get(shown, K_hpi) = Num(results[i].hpi)
             /\ Get(shown, K_hei) = Num(results[i].hei)
             /\ Get(shown, K_cd) = Num(results[i].cd)
             /\ Get(shown, K_category).str =
                  CategoryStr(results[i].category).str
             /\ Get(shown, K_latitude) =
                  IF results[i].latitude = Undefined THEN Null
                  ELSE results[i].latitude
             /\ Get(shown, K_longitude) =
                  IF results[i].longitude = Undefined THEN Null
                  ELSE results[i].longitude

\* metals without its j-th name
Without(metals, j) == SubSeq(metals, 1, j - 1) \o SubSeq(metals, j + 1, Len(metals))

\* C24: for a non-empty metal column list and non-negative concentrations,
\* hpi lies between the smallest and the largest sub-index
\* (concentration / limit) * 100; with a single column hpi = 100 * hei; and
\* hpi is no larger than the hpi over the list without a column whose
\* concentration is 0.
C24_HpiWithinSubIndices ==
  \A i \in Mapped :
    LET n == Len(metalColumns)
        c == [j \in 1..n |-> Concentration(RowAt(i), metalColumns[j])]
        q == [j \in 1..n |->
                NumMul(NumDiv(c[j], Standard(metalColumns[j])), Hundred)]
    IN  (n > 0 /\ \A j \in 1..n : NumGeq(c[j], Zero)) =>
          /\ \E j \in 1..n : NumGeq(RawHpi(i), q[j])
          /\ \E j \in 1..n : NumGeq(q[j], RawHpi(i))
          /\ n = 1 => RawHpi(i) =
                        NumMul(Hundred, calculateHEI(RowAt(i), metalColumns))
          /\ \A j \in 1..n :
               c[j] = Zero =>
                 NumGeq(calculateHPI(RowAt(i), Without(metalColumns, j)),
                        RawHpi(i))

\* C25: the processor takes the id only from the key "id" and the coordinates
\* only from latitude/Latitude/lat and longitude/Longitude/lon/lng, while a
\* first-row column whose lower-cased name is one of the excluded names is no
\* metal column: a row whose id or coordinate sits under "ID", "LAT" or "Lng"
\* gets the positional placeholder id or no coordinate.
C25_ExactKeysCaseInsensitiveExclusion ==
  \A i \in Mapped :
    LET row == RowAt(i)
        own(keys) == \E a \in 1..Len(keys) : HasKey(row, keys[a])
    IN  /\ ~HasKey(row, K_id) =>
             results[i].id = Str(<<"S","a","m","p","l","e"," ">> \o NatDigits(i))
        /\ ~own(<<K_latitude, K_Latitude, K_lat>>) =>
             results[i].latitude = Undefined
        /\ ~own(<<K_longitude, K_Longitude, K_lon, K_lng>>) =>
             results[i].longitude = Undefined
        /\ \A key \in {K_ID, K_LAT, K_Lng} :
             ~Includes(metalColumns, key)

\* C25 witness: a mapped first row with the columns ID, LAT and Lng: it has
\* no metal column, the placeholder id and no coordinates.
C25_Witness ==
  /\ pc = "done"
  /\ Len(results) = 1
  /\ ObjectKeys(RowAt(1)) = <<K_ID, K_LAT, K_Lng>>
  /\ metalColumns = <<>>
  /\ results[1].id = Str(<<"S","a","m","p","l","e"," ","1">>)
  /\ results[1].latitude = Undefined
  /\ results[1].longitude = Undefined

\* the call r of processFile ends in this step
Ends(r) == runs[r].pc # "finished" /\ runs'[r].pc = "finished"

\* the file is too large, of an unsupported format, does not parse, or fails
\* the schema validation
Rejected(file) ==
  \/ file.tooLarge
  \/ ToLowerCase(file.ext) \notin {E_csv, E_xlsx, E_xls}
  \/ ~file.parses
  \/ ~validateSchema(file.data)

\* C26: a run of processFile whose file is too large, of an unsupported
\* format, unparsable or invalid leaves the stored results unchanged and
\* schedules no navigation; the stored results change, and a navigation is
\* scheduled, only in the step in which a run with a valid file ends, after
\* processWaterSamples has returned.
C26_StoreOnlyAfterValidation ==
  [][ /\ \A r \in 1..MaxRuns :
           (Ends(r) /\ Rejected(runs'[r].file)) =>
             (storedResults' = storedResults /\ timers' = timers)
      /\ (storedResults' # storedResults \/ timers' > timers) =>
           \E r \in 1..MaxRuns :
             /\ Ends(r)
             /\ ~Rejected(runs[r].file)
             /\ storedResults' = StoredFor(runs[r].file)
             /\ timers' = timers + 1 ]_vars

\* C26 witness: after a.CSV was stored, padded.csv has failed the schema
\* validation: the stored results are still those of a.CSV and one navigation
\* is pending.
C26_Witness ==
  /\ runs[1] = [pc |-> "finished", file |-> F_a]
  /\ runs[2] = [pc |-> "finished", file |-> F_padded]
  /\ storedResults = StoredFor(F_a)
  /\ uploadToast = "Schema validation failed"
  /\ timers = 1
  /\ location = "/upload"

\* C27: every step that ends a run of processFile sets isProcessing to false,
\* and every run that is started and waits for its file or its parse
\* eventually ends.
C27_ProcessingEventuallyCleared ==
  /\ [][\A r \in 1..MaxRuns : Ends(r) => isProcessing' = FALSE]_vars
  /\ \A r \in 1..MaxRuns :
       (runs[r].pc \in {"reading", "parsing"}) ~> (runs[r].pc = "finished")

\* C27 witness: two runs have ended, the first on the schema failure path
\* and the second on the success path, and isProcessing is false.
C27_Witness ==
  /\ runs[1] = [pc |-> "finished", file |-> F_nometal]
  /\ runs[2] = [pc |-> "finished", file |-> F_b]
  /\ uploadToast = "Success"
  /\ storedResults = StoredFor(F_b)
  /\ ~isProcessing

\* C28: the run that reaches the store step writes its own results, whatever
\* file is shown as uploadedFile, and sets isProcessing to false, whatever
\* other run is in flight; uploadedFile is the file of the run started last,
\* unless it was cleared.
C28_LastStoreWins ==
  /\ [][\A r \in 1..MaxRuns :
          (Ends(r) /\ ~Rejected(runs[r].file)) =>
            /\ storedResults' = StoredFor(runs[r].file)
            /\ isProcessing' = FALSE
            /\ uploadedFile' = uploadedFile]_vars
  /\ [](LET started == {r \in 1..MaxRuns : runs[r].pc # "idle"}
        IN  \/ uploadedFile = NoFile
            \/ /\ started # {}
               /\ uploadedFile =
                    runs[CHOOSE r \in started : \A q \in started : q <= r].file)

\* C28 witness: b.xlsx was dropped while a.CSV was in flight; b.xlsx was
\* stored first and a.CSV last, so the stored results are those of a.CSV
\* while uploadedFile is b.xlsx.
C28_Witness ==
  /\ runs[1] = [pc |-> "finished", file |-> F_a]
  /\ runs[2] = [pc |-> "finished", file |-> F_b]
  /\ storedResults = StoredFor(F_a)
  /\ storedResults # StoredFor(F_b)
  /\ uploadedFile = F_b
  /\ ~isProcessing
  /\ timers = 2
  /\ location = "/upload"

\* C29: while the Results page is shown, whatever the search edits and
\* clears, category selections, filter resets and First/Prev/Next/Last clicks
\* so far, page is at least 1 and at most totalPages, totalPages is 1 for an
\* empty filtered list and otherwise the least number of pages of PAGE_SIZE
\* records that holds the filtered list, and the slice shown is empty only
\* when the filtered list is empty.
C29_PageWithinBounds ==
  Shown =>
    LET n == Len(filtered)
    IN  /\ 1 <= page
        /\ page <= totalPages
        /\ totalPages >= 1
        /\ totalPages * PAGE_SIZE >= n
        /\ (totalPages > 1 => (totalPages - 1) * PAGE_SIZE < n)
        /\ (paged = <<>> => filtered = <<>>)

\* C29 witness: with the most records stored and the category Safe selected,
\* the user is on the second and last page, which shows three records.
C29_Witness ==
  /\ Shown
  /\ Len(pageResults) = MaxView
  /\ categoryFilter = S_Safe
  /\ query = <<>>
  /\ Len(filtered) = 15
  /\ totalPages = 2
  /\ page = 2
  /\ Len(paged) = 3

\* a coordinate of the rehydrated record r is the number 0
HasZeroCoordinate(r) ==
  \/ Get(r.fields, K_latitude) = Num(Zero)
  \/ Get(r.fields, K_longitude) = Num(Zero)

\* C30: once the results of processWaterSamples are stored and both pages
\* have loaded the stored list, a stored result is on the map exactly when its latitude
\* and longitude are both truthy, and the GeoJSON export of the Results page
\* has a feature for it exactly when both are numbers; a result that is
\* exported with a coordinate of 0 is not on the map, and a result without
\* a coordinate of 0 is on the map exactly when it is exported.
C30_MapAndExportDifferAtZero ==
  ( /\ pc = "stored"
    /\ mounted
    /\ vizMounted
    /\ vizResults = storedResults.json ) =>
    /\ Len(vizResults.items) = Len(normalized.items)
    /\ \A i \in 1..Len(vizResults.items) :
         LET raw == vizResults.items[i]
             row == normalized.items[i]
             onMap == \E j \in 1..Len(samplesWithCoordinates) :
                        samplesWithCoordinates[j] = raw
             exported == \E j \in 1..Len(FeatureRows(pageResults)) :
                           FeatureRows(pageResults)[j] = row
         IN  /\ onMap <=> ( /\ Truthy(Get(raw.fields, K_latitude))
                            /\ Truthy(Get(raw.fields, K_longitude)) )
             /\ exported <=> ( /\ Get(row.fields, K_latitude).t = "number"
                               /\ Get(row.fields, K_longitude).t = "number" )
             /\ (exported /\ HasZeroCoordinate(row)) => ~onMap
             /\ ~HasZeroCoordinate(row) => (onMap <=> exported)

\* C30 witness: the one stored result has the latitude -3.5 and the
\* longitude 0: the export has a feature for it and the map has no sample.
C30_Witness ==
  /\ pc = "stored"
  /\ mounted
  /\ vizMounted
  /\ Len(vizResults.items) = 1
  /\ Get(vizResults.items[1].fields, K_latitude) = Num(Fin(-7, 2))
  /\ Get(vizResults.items[1].fields, K_longitude) = Num(Zero)
  /\ Len(FeatureRows(pageResults)) = 1
  /\ samplesWithCoordinates = <<>>

=============================================================================
